---------------------------- MODULE Spec2Model ----------------------------
(***************************************************************************)
(* A model of the chunking + retrieval pipeline of NotebookLM_Clone:       *)
(*   core/chunker.py       chunk_text, modelled statement by statement     *)
(*   core/vector_store.py  VectorStore over a persistent collection        *)
(*   core/embedder.py      the embedding capability the store consumes     *)
(* Each component has its own specification over the shared variables:     *)
(*   SpecChunker  one call of chunk_text on every text and parameter pair  *)
(*   Spec         add_chunks / search calls on one notebook's index        *)
(*   SpecDim      add_chunks from processes with different embedding models*)
(*   SpecScope    the notebooks' directories and the index in each         *)
(*   SpecRag      build_rag_messages on one notebook's index               *)
(*   SpecConc     two add_chunks calls running at the same time            *)
(*   SpecEmbedder threads in get_model                                     *)
(***************************************************************************)
EXTENDS Integers, Sequences, FiniteSets, TLC

VARIABLES
    \* ---- core/chunker.py: the locals of one chunk_text call
    text,          \* the argument: a string, as a sequence of characters
    chunk_size,    \* the argument chunk_size
    overlap,       \* the argument overlap
    words,         \* text.split()
    chunks,        \* the list being built, returned at the end
    start,         \* the window's first word (0-based, as in the code)
    pc,            \* "entry" | "loop" | "done" | "idle"
    \* ---- core/vector_store.py: one notebook's collection and the last call
    collection,    \* the stored records, in insertion order
    issued,        \* how many uuid4() values add_chunks has drawn so far
    call,          \* the last VectorStore call: its arguments and its outcome
    \* ---- core/embedder.py: the module global and the threads in get_model
    model_global,  \* _model: 0 for None, else the number of the instance held
    loads,         \* how many times the model constructor has run
    threads,       \* per thread: where it is in get_model, what it was given
    \* ---- core/storage_manager.py: the notebooks and the directory tree
    owners,        \* the Notebook rows: owners[k] is the user of the k-th notebook
    dirs,          \* the directories that exist, as resolved paths
    disk,          \* the collection persisted in each chroma directory
    purged,        \* per notebook, the ids of the records its deletes removed
    request,       \* the last storage / index request and its outcome
    \* ---- features/chat.py: the last build_rag_messages call
    rag,           \* its arguments, the caller's history after it, its outcome
    \* ---- core/vector_store.py: add_chunks calls running at the same time
    writers,       \* per writer: where it is in add_chunks, and its locals
    \* ---- core/ingestion.py: the last load_txt call
    ingest,        \* its argument and its outcome
    \* ---- core/groq_client.py: one groq_chat / groq_stream call
    groq,          \* its arguments, the attempts made so far, its outcome
    \* ---- app.py, api.py: the notebooks of one user and their storage
    app,           \* the Notebook rows, the directories, the index records
    \* ---- api.py: the artifacts and chat messages, the requests in flight
    api            \* the Artifact and ChatMessage rows, the running requests

chunkerVars == <<text, chunk_size, overlap, words, chunks, start, pc>>
storeVars == <<collection, issued, call>>
embedderVars == <<model_global, loads, threads>>
scopeVars == <<owners, dirs, disk, purged, request>>
ragVars == <<rag>>
concVars == <<writers>>
serviceVars == <<ingest, groq, app, api>>
otherVars == <<embedderVars, scopeVars, ragVars, concVars, serviceVars>>
coreVars == <<chunkerVars, storeVars, embedderVars, scopeVars, ragVars, concVars>>
vars == <<text, chunk_size, overlap, words, chunks, start, pc, collection, issued, call,
          otherVars>>

\* The threads that call into the embedder
NumThreads == 2
Threads == 1..NumThreads

\* No thread is in get_model and the model is not loaded
EmbedderIdle ==
    /\ model_global = 0
    /\ loads = 0
    /\ threads = [t \in Threads |-> [pc |-> "idle", made |-> 0, got |-> 0, calls |-> 0]]

\* The requests and their outcome, as recorded in the variable request
NoRequest ==
    [op |-> "none", notebook |-> 0, path |-> <<>>, query |-> "", existed |-> FALSE,
     returned |-> FALSE, count |-> 0, raised |-> "none", result |-> <<>>]

\* No notebook has been created and the data root is empty
ScopeIdle ==
    /\ owners = <<>>
    /\ dirs = {}
    /\ disk = [p \in {} |-> <<>>]
    /\ purged = <<>>
    /\ request = NoRequest

\* The build_rag_messages calls and their outcome, as recorded in rag
NoRag ==
    [op |-> "none", query |-> "", fails |-> FALSE, history_arg |-> <<>>,
     history |-> <<>>, embedded |-> FALSE, results |-> <<>>, raised |-> "none",
     returned |-> FALSE, messages |-> <<>>, llm_called |-> FALSE]

RagIdle == rag = NoRag

\* The two add_chunks calls that run at the same time
Writers == {"w1", "w2"}

ConcIdle ==
    writers = [w \in Writers |-> [pc |-> "idle", chunks |-> <<>>, opened |-> <<>>,
                                  embeddings |-> <<>>, ids |-> <<>>]]

\* The load_txt calls and their outcome, as recorded in ingest
NoIngest == [op |-> "none", file_bytes |-> <<>>, raised |-> FALSE, value |-> <<>>]

\* No groq_chat / groq_stream call has been made
NoGroq ==
    [op |-> "none", pc |-> "idle", requested |-> "None", models |-> <<>>,
     attempts |-> <<>>, errors |-> <<>>, yielded |-> <<>>, left |-> 0,
     result |-> "", raised |-> <<>>]

\* The outcome of the last notebook operation, as recorded in app.last
NoOp ==
    [op |-> "none", status |-> "none", notebook |-> 0,
     is_append |-> FALSE, created |-> FALSE]

\* No notebook, no directory, no record
NoApp ==
    [rows |-> {}, storage |-> {}, index |-> {}, drawn |-> 0, last |-> NoOp]

\* What an artifact holds and a response carries: the text it was made
\* from, plain or as a JSON document
NoContent == [json |-> FALSE, of |-> "", text |-> 0]

\* The response of the last API request answered, with what the request did
NoResponse ==
    [endpoint |-> "none", user |-> "", notebook |-> 0, key |-> "",
     status |-> 0, body |-> NoContent, touched |-> FALSE, llm_called |-> FALSE,
     index_read |-> FALSE]

\* No artifact, no chat message, no request in flight
NoApi ==
    [artifacts |-> <<>>, messages |-> <<>>, generated |-> <<>>, flight |-> <<>>,
     served |-> 0, chats |-> 0, last |-> NoResponse]

\* The components no call has reached yet
OthersIdle ==
    /\ EmbedderIdle /\ ScopeIdle /\ RagIdle /\ ConcIdle
    /\ ingest = NoIngest /\ groq = NoGroq /\ app = NoApp /\ api = NoApi

Min(a, b) == IF a < b THEN a ELSE b
Max(a, b) == IF a > b THEN a ELSE b

(***************************************************************************)
(* Bounds of the model.                                                    *)
(***************************************************************************)
\* Longest text given to chunk_text, in characters
MaxTextLen == 9
\* Largest chunk_size given to chunk_text
MaxChunkSize == 3
\* Largest overlap given to chunk_text (above MaxChunkSize - 1 on purpose:
\* the code accepts overlap >= chunk_size)
MaxOverlap == 3
\* Most records one index holds
MaxRecords == 2
\* Most chunks passed to one add_chunks call
MaxBatch == 2
\* Largest top_k passed to search (above MaxRecords on purpose)
MaxTopK == 3

\* The characters of a text: one letter and one whitespace character
Chars == {"a", " "}
Texts == UNION {[1..n -> Chars] : n \in 0..MaxTextLen}

(***************************************************************************)
(* Python's string and list primitives used by chunk_text.                 *)
(***************************************************************************)
\* str.split() with no argument: the maximal runs of non-whitespace
RECURSIVE SplitFrom(_, _, _, _)
SplitFrom(s, i, cur, acc) ==
    IF i > Len(s)
    THEN (IF cur = <<>> THEN acc ELSE Append(acc, cur))
    ELSE IF s[i] = " "
         THEN SplitFrom(s, i + 1, <<>>, IF cur = <<>> THEN acc ELSE Append(acc, cur))
         ELSE SplitFrom(s, i + 1, Append(cur, s[i]), acc)

Split(s) == SplitFrom(s, 1, <<>>, <<>>)

\* " ".join(ws)
RECURSIVE Join(_)
Join(ws) ==
    IF ws = <<>> THEN <<>>
    ELSE IF Len(ws) = 1 THEN ws[1]
    ELSE ws[1] \o <<" ">> \o Join(Tail(ws))

\* chunk.strip() is falsy: the string holds nothing but whitespace
IsBlank(s) == \A i \in 1..Len(s) : s[i] = " "

\* Python's index normalisation of a slice bound: a negative bound counts
\* from the end, and every bound is clipped to [0, n]
SliceBound(b, n) == IF b < 0 THEN Max(b + n, 0) ELSE Min(b, n)

\* seq[lo:hi] with Python's 0-based, end-exclusive bounds
PySlice(seq, lo, hi) ==
    SubSeq(seq, SliceBound(lo, Len(seq)) + 1, SliceBound(hi, Len(seq)))

(***************************************************************************)
(* core/chunker.py: chunk_text                                             *)
(***************************************************************************)
\* A window one word short (an off-by-one in the slice's end)
WindowShort(ws, s, size) == PySlice(ws, s, s + size - 1)

\* lines 17-18: end = start + chunk_size; words[start:end]
Window(ws, s, size) == PySlice(ws, s, s + size)

\* A step that forgets the overlap
NextStartNoOverlap(s, size, ov) == s + size

\* line 21: start += chunk_size - overlap
NextStart(s, size, ov) == s + size - ov

\* lines 13-15: words = text.split(); chunks = []; start = 0
ChunkEnter ==
    /\ pc = "entry"
    /\ words' = Split(text)
    /\ chunks' = <<>>
    /\ start' = 0
    /\ pc' = "loop"
    /\ UNCHANGED <<text, chunk_size, overlap>>
    /\ UNCHANGED <<storeVars, otherVars>>

\* lines 16-21: one iteration of the while loop.  A call whose step is not
\* positive never leaves the loop (start stays, or moves below zero); the
\* model follows such a call until it has emitted Len(text) + 1 chunks or
\* start has passed -Len(text), further than any call with a positive step
\* gets.
ChunkLoopStep ==
    /\ pc = "loop"
    /\ start < Len(words)
    /\ Len(chunks) <= Len(text)
    /\ start >= -Len(text)
    /\ LET chunk == Join(Window(words, start, chunk_size))
       IN chunks' = IF ~IsBlank(chunk) THEN Append(chunks, chunk) ELSE chunks
    /\ start' = NextStart(start, chunk_size, overlap)
    /\ UNCHANGED <<text, chunk_size, overlap, words, pc>>
    /\ UNCHANGED <<storeVars, otherVars>>

\* line 22: the loop condition is false; return chunks
ChunkReturn ==
    /\ pc = "loop"
    /\ ~(start < Len(words))
    /\ pc' = "done"
    /\ UNCHANGED <<text, chunk_size, overlap, words, chunks, start>>
    /\ UNCHANGED <<storeVars, otherVars>>

(***************************************************************************)
(* core/embedder.py: the embedding capability.  The model behind it is a   *)
(* fixed function from text to vector; here a stub table of 2-dimensional  *)
(* integer vectors in which the query "gamma" is equally far from the      *)
(* chunks "alpha" and "beta".                                              *)
(***************************************************************************)
\* The chunk texts given to add_chunks, the queries given to search, and
\* the source labels (add_chunks' default and a file name)
StoreTexts == {"alpha", "beta"}
Queries == {"alpha", "beta", "gamma"}
Sources == {"Unknown Source", "notes.txt"}
\* The output dimensions of the embedding models a process may have loaded:
\* the stub table's and a longer one
ModelDims == {Len(<<0, 0>>), Len(<<0, 0, 0>>)}

\* model.encode on one text
Encode(t) ==
    CASE t = "alpha" -> <<0, 0>>
      [] t = "beta" -> <<2, 0>>
      [] t = "gamma" -> <<1, 1>>

\* embed_texts(texts): one encode call for the whole batch; it raises when
\* the capability fails on any text (fail_at is the first such text, 0 if
\* none)
embed_texts(texts, fail_at) ==
    IF fail_at # 0
    THEN [ok |-> FALSE, value |-> <<>>]
    ELSE [ok |-> TRUE, value |-> [i \in 1..Len(texts) |-> Encode(texts[i])]]

\* The vector a model of output dimension d gives a text: the stub table's,
\* padded with zeros
EncodeDim(d, t) == Encode(t) \o [i \in 1..(d - Len(Encode(t))) |-> 0]

\* embed_texts(texts) when the loaded model has output dimension d
embed_texts_dim(d, texts, fail_at) ==
    IF fail_at # 0
    THEN [ok |-> FALSE, value |-> <<>>]
    ELSE [ok |-> TRUE, value |-> [i \in 1..Len(texts) |-> EncodeDim(d, texts[i])]]

\* embed_query(query): encode([query])[0]
embed_query(query, fails) ==
    IF fails
    THEN [ok |-> FALSE, value |-> <<>>]
    ELSE [ok |-> TRUE, value |-> Encode(query)]

(***************************************************************************)
(* The collection "notebook_chunks" that VectorStore.__init__ opens with   *)
(* hnsw:space = l2, as VectorStore uses it: count, add and query.          *)
(***************************************************************************)
\* Squared Euclidean distance, the collection's "l2" space
L2(u, v) == (u[1] - v[1]) * (u[1] - v[1]) + (u[2] - v[2]) * (u[2] - v[2])

CollectionCount(coll) == Len(coll)

\* The records a batch appends: those whose id is not stored yet, in the
\* order given
FreshRecords(coll, documents, embeddings, metadatas, ids) ==
    LET stored == {coll[i].id : i \in 1..Len(coll)}
    IN SelectSeq([i \in 1..Len(ids) |->
                     [id |-> ids[i],
                      embedding |-> embeddings[i],
                      document |-> documents[i],
                      metadata |-> metadatas[i]]],
                 LAMBDA r : r.id \notin stored)

\* An add that stores vectors of any length
CollectionAddAnyDimension(coll, documents, embeddings, metadatas, ids) ==
    IF \E i, j \in 1..Len(ids) : i # j /\ ids[i] = ids[j]
    THEN [ok |-> FALSE, error |-> "DuplicateIDError", collection |-> coll]
    ELSE [ok |-> TRUE, error |-> "none",
          collection |-> coll \o FreshRecords(coll, documents, embeddings, metadatas, ids)]

\* collection.add(documents, embeddings, metadatas, ids): a batch with a
\* repeated id is refused; so is a batch whose vectors have another length
\* than the collection's (that of the records it holds); a record whose id
\* is already stored is skipped; the others are appended in the order given
CollectionAdd(coll, documents, embeddings, metadatas, ids) ==
    IF \E i, j \in 1..Len(ids) : i # j /\ ids[i] = ids[j]
    THEN [ok |-> FALSE, error |-> "DuplicateIDError", collection |-> coll]
    ELSE IF coll # <<>> /\ \E i \in 1..Len(embeddings) :
                              Len(embeddings[i]) # Len(coll[1].embedding)
    THEN [ok |-> FALSE, error |-> "InvalidDimensionException", collection |-> coll]
    ELSE [ok |-> TRUE, error |-> "none",
          collection |-> coll \o FreshRecords(coll, documents, embeddings, metadatas, ids)]

\* The rankings a nearest-neighbour query for k records may return, as
\* sequences of positions in the collection: k distinct records, nearest
\* first, each the nearest of those not yet taken.  The collection fixes no
\* order among records at the same distance.
RECURSIVE RankingsFrom(_, _, _, _)
RankingsFrom(coll, q_emb, k, taken) ==
    IF Len(taken) = k
    THEN {taken}
    ELSE LET left == {m \in 1..Len(coll) : \A i \in 1..Len(taken) : taken[i] # m}
             nearest == {m \in left : \A o \in left :
                            L2(coll[m].embedding, q_emb) <= L2(coll[o].embedding, q_emb)}
         IN UNION {RankingsFrom(coll, q_emb, k, Append(taken, m)) : m \in nearest}

Rankings(coll, q_emb, k) == RankingsFrom(coll, q_emb, k, <<>>)

\* A query that refuses n_results above the number of stored records
\* instead of lowering it
CollectionQueryNoClamp(coll, q_emb, n_results) ==
    IF n_results > Len(coll)
    THEN {[ok |-> FALSE, documents |-> <<>>, metadatas |-> <<>>]}
    ELSE {[ok |-> TRUE,
           documents |-> [i \in 1..n_results |-> coll[r[i]].document],
           metadatas |-> [i \in 1..n_results |-> coll[r[i]].metadata]] :
              r \in Rankings(coll, q_emb, n_results)}

\* collection.query(query_embeddings=[q_emb], n_results=n_results): n_results
\* above the number of stored records is lowered to it; the documents and
\* metadatas of the nearest records come back nearest first
CollectionQuery(coll, q_emb, n_results) ==
    LET k == Min(n_results, Len(coll))
    IN {[ok |-> TRUE,
         documents |-> [i \in 1..k |-> coll[r[i]].document],
         metadatas |-> [i \in 1..k |-> coll[r[i]].metadata]] :
            r \in Rankings(coll, q_emb, k)}

(***************************************************************************)
(* core/vector_store.py: VectorStore                                       *)
(***************************************************************************)
\* The calls and their outcome, as recorded in the variable call
NoCall ==
    [op |-> "none", chunks |-> <<>>, source |-> "", query |-> "", top_k |-> 0,
     include_metadata |-> FALSE, fail_at |-> 0, dim |-> 0, embedded |-> FALSE,
     raised |-> "none", result |-> <<>>]

\* Ids taken from the position in the batch, the same for every call
PositionIds(n, k) == [i \in 1..k |-> i]

\* line 29: ids = [str(uuid.uuid4()) for _ in chunks]: k values never drawn
\* before, when n have been drawn so far
NewIds(n, k) == [i \in 1..k |-> n + i]

\* add_chunks that embeds and adds the chunks one at a time
AddChunksOneByOne(coll, n, chunks_arg, source_filename, fail_at) ==
    LET good == IF fail_at = 0 THEN Len(chunks_arg) ELSE fail_at - 1
        kept == SubSeq(chunks_arg, 1, good)
        added == CollectionAdd(coll, kept,
                               [i \in 1..good |-> Encode(kept[i])],
                               [i \in 1..good |-> [source |-> source_filename]],
                               NewIds(n, good))
    IN [raised |-> IF fail_at = 0 THEN "none" ELSE "EmbeddingError",
        embedded |-> chunks_arg # <<>>,
        collection |-> added.collection,
        issued |-> n + good]

\* lines 21-40: add_chunks(chunks, source_filename) on a collection coll,
\* when n uuids have been drawn so far and embed_texts(chunks) gives
\* embeddings (it is called only for a non-empty chunk list)
AddChunksWith(coll, n, chunks_arg, source_filename, embeddings) ==
    IF chunks_arg = <<>>
    THEN [raised |-> "none", embedded |-> FALSE, collection |-> coll, issued |-> n]
    ELSE IF ~embeddings.ok
         THEN [raised |-> "EmbeddingError", embedded |-> TRUE,
               collection |-> coll, issued |-> n]
         ELSE LET ids == NewIds(n, Len(chunks_arg))
                  metadatas == [i \in 1..Len(chunks_arg) |-> [source |-> source_filename]]
                  added == CollectionAdd(coll, chunks_arg, embeddings.value, metadatas, ids)
              IN [raised |-> added.error,
                  embedded |-> TRUE,
                  collection |-> added.collection,
                  issued |-> n + Len(chunks_arg)]

\* add_chunks with the embedding model of the stub table
AddChunksOutcome(coll, n, chunks_arg, source_filename, fail_at) ==
    AddChunksWith(coll, n, chunks_arg, source_filename, embed_texts(chunks_arg, fail_at))

\* lines 65-69: the value search returns for a query result
SearchResult(res, include_metadata) ==
    IF res.documents = <<>>
    THEN <<>>
    ELSE IF include_metadata /\ res.metadatas # <<>>
         THEN [i \in 1..Len(res.documents) |->
                  [text |-> res.documents[i], source |-> res.metadatas[i].source]]
         ELSE res.documents

\* search that embeds the query before it looks at the collection
SearchEmbedsFirst(coll, query, top_k, include_metadata, fails) ==
    LET q_emb == embed_query(query, fails)
    IN IF ~q_emb.ok
       THEN {[raised |-> "EmbeddingError", embedded |-> TRUE, result |-> <<>>]}
       ELSE IF CollectionCount(coll) = 0
            THEN {[raised |-> "none", embedded |-> TRUE, result |-> <<>>]}
            ELSE {[raised |-> IF res.ok THEN "none" ELSE "QueryError",
                   embedded |-> TRUE,
                   result |-> SearchResult(res, include_metadata)] :
                      res \in CollectionQuery(coll, q_emb.value, top_k)}

\* lines 42-69: the outcomes of search(query, top_k, include_metadata) on a
\* collection coll
SearchOutcomes(coll, query, top_k, include_metadata, fails) ==
    IF CollectionCount(coll) = 0
    THEN {[raised |-> "none", embedded |-> FALSE, result |-> <<>>]}
    ELSE LET q_emb == embed_query(query, fails)
         IN IF ~q_emb.ok
            THEN {[raised |-> "EmbeddingError", embedded |-> TRUE, result |-> <<>>]}
            ELSE {[raised |-> IF res.ok THEN "none" ELSE "QueryError",
                   embedded |-> TRUE,
                   result |-> SearchResult(res, include_metadata)] :
                      res \in CollectionQuery(coll, q_emb.value, top_k)}

\* A call of add_chunks, on an index that stays within MaxRecords records
AddChunks ==
    \E n \in 0..MaxBatch :
    \E chunks_arg \in [1..n -> StoreTexts] :
    \E source_filename \in Sources :
    \E fail_at \in 0..n :
        /\ LET out == AddChunksOutcome(collection, issued, chunks_arg, source_filename, fail_at)
           IN /\ Len(out.collection) <= MaxRecords
              /\ collection' = out.collection
              /\ issued' = out.issued
              /\ call' = [NoCall EXCEPT !.op = "add_chunks",
                                        !.chunks = chunks_arg,
                                        !.source = source_filename,
                                        !.fail_at = fail_at,
                                        !.embedded = out.embedded,
                                        !.raised = out.raised]
        /\ UNCHANGED <<chunkerVars, otherVars>>

\* A call of search
Search ==
    \E query \in Queries :
    \E top_k \in 1..MaxTopK :
    \E include_metadata \in BOOLEAN :
    \E fails \in BOOLEAN :
    \E out \in SearchOutcomes(collection, query, top_k, include_metadata, fails) :
        /\ call' = [NoCall EXCEPT !.op = "search",
                                  !.query = query,
                                  !.top_k = top_k,
                                  !.include_metadata = include_metadata,
                                  !.fail_at = IF fails THEN 1 ELSE 0,
                                  !.embedded = out.embedded,
                                  !.raised = out.raised,
                                  !.result = out.result]
        /\ UNCHANGED <<collection, issued>>
        /\ UNCHANGED <<chunkerVars, otherVars>>

StoreIdle ==
    /\ collection = <<>>
    /\ issued = 0
    /\ call = NoCall

InitChunker ==
    /\ text \in Texts
    /\ chunk_size \in 1..MaxChunkSize
    /\ overlap \in 0..MaxOverlap
    /\ words = <<>>
    /\ chunks = <<>>
    /\ start = 0
    /\ pc = "entry"
    /\ StoreIdle
    /\ OthersIdle

NextChunker == ChunkEnter \/ ChunkLoopStep \/ ChunkReturn

SpecChunker == InitChunker /\ [][NextChunker]_vars

(***************************************************************************)
(* One notebook's index: VectorStore.__init__ has opened an empty          *)
(* collection; add_chunks and search are called in any order.              *)
(***************************************************************************)
ChunkerIdle ==
    /\ text = <<>>
    /\ chunk_size = 1
    /\ overlap = 0
    /\ words = <<>>
    /\ chunks = <<>>
    /\ start = 0
    /\ pc = "idle"

Init ==
    /\ ChunkerIdle
    /\ StoreIdle
    /\ OthersIdle

Next == AddChunks \/ Search

Spec == Init /\ [][Next]_vars

(***************************************************************************)
(* One notebook's index across processes whose embedding model may differ: *)
(* the collection persists, each add_chunks call embeds with the model the *)
(* calling process has loaded.                                             *)
(***************************************************************************)
\* Most uuids drawn in a run of the processes below: a refused add has
\* drawn its ids and stored nothing
MaxIssued == 4

\* A call of add_chunks in a process whose model has output dimension d
AddChunksModel ==
    \E d \in ModelDims :
    \E n \in 0..MaxBatch :
    \E chunks_arg \in [1..n -> StoreTexts] :
    \E source_filename \in Sources :
    \E fail_at \in 0..n :
        /\ LET out == AddChunksWith(collection, issued, chunks_arg, source_filename,
                                    embed_texts_dim(d, chunks_arg, fail_at))
           IN /\ Len(out.collection) <= MaxRecords
              /\ out.issued <= MaxIssued
              /\ collection' = out.collection
              /\ issued' = out.issued
              /\ call' = [NoCall EXCEPT !.op = "add_chunks",
                                        !.chunks = chunks_arg,
                                        !.source = source_filename,
                                        !.fail_at = fail_at,
                                        !.dim = d,
                                        !.embedded = out.embedded,
                                        !.raised = out.raised]
        /\ UNCHANGED <<chunkerVars, otherVars>>

NextDim == AddChunksModel

SpecDim == Init /\ [][NextDim]_vars

(***************************************************************************)
(* core/storage_manager.py: the directory of each (user, notebook) pair,   *)
(* and the index VectorStore.__init__ opens there.  A path is the sequence *)
(* of its segments; an id with separators has several segments.            *)
(***************************************************************************)
\* line 6: DATA_ROOT, line 7: USERS_DIR = os.path.join(DATA_ROOT, "users")
DATA_ROOT == <<"data">>
USERS_DIR == DATA_ROOT \o <<"users">>

\* api.py line 18-22: the X-HF-User header, any non-empty string
UserIds == {<<"u1">>, <<"u1", "notebooks", "n1">>, <<"u2", "..", "u1">>}

\* api.py line 94, app.py line 85: str(uuid.uuid4()), the k-th one drawn
NotebookNames == <<"n1", "n2">>
NotebookId(k) == <<NotebookNames[k]>>

\* app.py line 136: the source name the k-th notebook's upload passes
SourceNames == <<"a.txt", "b.txt">>
SourceName(k) == SourceNames[k]

\* lines 9-11: os.path.join(USERS_DIR, hf_user_id)
get_user_dir(hf_user_id) == USERS_DIR \o hf_user_id

\* lines 13-15: os.path.join(_get_user_dir(hf_user_id), "notebooks", notebook_id)
get_notebook_dir(hf_user_id, notebook_id) ==
    get_user_dir(hf_user_id) \o <<"notebooks">> \o notebook_id

\* A chroma directory per user, whatever the notebook
get_chroma_db_dir_per_user(hf_user_id, notebook_id) ==
    get_user_dir(hf_user_id) \o <<"chroma">>

\* lines 50-52 and 22: os.path.join(get_notebook_dir(...), "chroma")
get_chroma_db_dir(hf_user_id, notebook_id) ==
    get_notebook_dir(hf_user_id, notebook_id) \o <<"chroma">>

\* The directory a path names once the file system has followed its ".."
RECURSIVE ResolveFrom(_, _)
ResolveFrom(path, acc) ==
    IF path = <<>>
    THEN acc
    ELSE IF Head(path) = ".."
         THEN ResolveFrom(Tail(path),
                          IF acc = <<>> THEN acc ELSE SubSeq(acc, 1, Len(acc) - 1))
         ELSE ResolveFrom(Tail(path), Append(acc, Head(path)))

Resolve(path) == ResolveFrom(path, <<>>)

IsPrefix(p, q) == Len(p) <= Len(q) /\ SubSeq(q, 1, Len(p)) = p

\* line 23: os.makedirs(path, exist_ok=True): every directory on the way
MakeDirs(d, path) == d \cup {Resolve(SubSeq(path, 1, i)) : i \in 1..Len(path)}

\* line 45: os.path.exists(path): every directory on the way exists
Exists(d, path) == \A i \in 1..Len(path) : Resolve(SubSeq(path, 1, i)) \in d

\* A removal of the directory alone, leaving what is below it
RmTreeTopOnly(d, path) == d \ {Resolve(path)}

\* line 46: shutil.rmtree(path): the directory and all below it
RmTree(d, path) == {p \in d : ~IsPrefix(Resolve(path), p)}

\* vector_store.py lines 14-19: PersistentClient(path=db_dir) and
\* get_or_create_collection: the collection persisted there, created empty
\* if there is none
OpenIndex(dk, path) ==
    [p \in DOMAIN dk \cup {Resolve(path)} |->
        IF p \in DOMAIN dk THEN dk[p] ELSE <<>>]

\* api.py lines 92-98: a user creates a notebook, its id a fresh uuid
CreateNotebook ==
    \E u \in UserIds :
        /\ Len(owners) < Len(NotebookNames)
        /\ owners' = Append(owners, u)
        /\ purged' = Append(purged, {})
        /\ request' = [NoRequest EXCEPT !.op = "create", !.notebook = Len(owners) + 1]
        /\ UNCHANGED <<dirs, disk>>
        /\ UNCHANGED <<chunkerVars, storeVars, embedderVars, ragVars, concVars, serviceVars>>

\* app.py line 127: chunks = chunk_text(text): the first n chunks of the
\* uploaded document, whose chunks alternate between the two texts
DocumentChunks(n) == [i \in 1..n |-> IF i % 2 = 1 THEN "alpha" ELSE "beta"]

\* app.py lines 134-136: get_chroma_db_dir, VectorStore(chroma_dir),
\* add_chunks(chunks, source_filename) for a notebook of the caller
ScopeAddChunks ==
    \E k \in 1..Len(owners) :
    \E n \in 1..MaxBatch :
        LET path == get_chroma_db_dir(owners[k], NotebookId(k))
            chunks_arg == DocumentChunks(n)
            opened == OpenIndex(disk, path)
            out == AddChunksWith(opened[Resolve(path)], issued, chunks_arg,
                                 SourceName(k), embed_texts(chunks_arg, 0))
        IN /\ Len(out.collection) <= MaxRecords
           /\ out.issued <= MaxIssued
           /\ dirs' = MakeDirs(dirs, path)
           /\ disk' = [opened EXCEPT ![Resolve(path)] = out.collection]
           /\ issued' = out.issued
           /\ request' = [NoRequest EXCEPT !.op = "add_chunks", !.notebook = k,
                                           !.path = Resolve(path),
                                           !.count = Len(out.collection),
                                           !.raised = out.raised]
           /\ UNCHANGED <<owners, purged, collection, call>>
           /\ UNCHANGED <<chunkerVars, embedderVars, ragVars, concVars, serviceVars>>

\* api.py lines 150-151 and chat.py line 29: get_chroma_db_dir,
\* VectorStore(chroma_dir), search(query, top_k, include_metadata=True)
ScopeSearch ==
    \E k \in 1..Len(owners) :
    \E query \in Queries :
        LET path == get_chroma_db_dir(owners[k], NotebookId(k))
            opened == OpenIndex(disk, path)
        IN \E out \in SearchOutcomes(opened[Resolve(path)], query, MaxTopK, TRUE, FALSE) :
               /\ dirs' = MakeDirs(dirs, path)
               /\ disk' = opened
               /\ request' = [NoRequest EXCEPT !.op = "search", !.notebook = k,
                                               !.path = Resolve(path),
                                               !.query = query,
                                               !.count = Len(opened[Resolve(path)]),
                                               !.raised = out.raised,
                                               !.result = out.result]
               /\ UNCHANGED <<owners, purged, storeVars>>
               /\ UNCHANGED <<chunkerVars, embedderVars, ragVars, concVars, serviceVars>>

\* lines 42-48: delete_notebook_storage(hf_user_id, notebook_id)
DeleteNotebookStorage ==
    \E k \in 1..Len(owners) :
        LET path == get_notebook_dir(owners[k], NotebookId(k))
            index == Resolve(get_chroma_db_dir(owners[k], NotebookId(k)))
            existed == Exists(dirs, path)
            left == IF existed THEN RmTree(dirs, path) ELSE dirs
            held == IF index \in DOMAIN disk
                    THEN {disk[index][i].id : i \in 1..Len(disk[index])}
                    ELSE {}
        IN /\ dirs' = left
           /\ purged' = [purged EXCEPT ![k] = @ \cup held]
           /\ disk' = [p \in DOMAIN disk \cap left |-> disk[p]]
           /\ request' = [NoRequest EXCEPT !.op = "delete", !.notebook = k,
                                           !.path = Resolve(path),
                                           !.existed = existed,
                                           !.returned = existed]
           /\ UNCHANGED <<owners, storeVars>>
           /\ UNCHANGED <<chunkerVars, embedderVars, ragVars, concVars, serviceVars>>

\* The records an open of the k-th notebook's index holds
IndexOf(k) ==
    OpenIndex(disk, get_chroma_db_dir(owners[k], NotebookId(k)))
        [Resolve(get_chroma_db_dir(owners[k], NotebookId(k)))]

NextScope ==
    \/ CreateNotebook
    \/ ScopeAddChunks
    \/ ScopeSearch
    \/ DeleteNotebookStorage

SpecScope == Init /\ [][NextScope]_vars

(***************************************************************************)
(* features/chat.py: build_rag_messages on one notebook's index.  A text   *)
(* is the sequence of the pieces the f-strings put together.               *)
(***************************************************************************)
\* Longest history passed to build_rag_messages
MaxHistory == 12

\* line 26: top_k: int = 6
DefaultTopK == 6

\* line 44: history[-10:]
HistoryWindowSize == 10

\* lines 10-19
SYSTEM_PROMPT == <<"You are ThinkBook AI, ...">>

\* The history lengths tried: none, one, around the window, the longest
HistoryLengths ==
    {0, 1, HistoryWindowSize - 1, HistoryWindowSize, HistoryWindowSize + 1, MaxHistory}

\* The history the caller holds: h turns, oldest first, user and assistant
\* taking turns
History(h) ==
    [i \in 1..h |-> [role |-> IF i % 2 = 1 THEN "user" ELSE "assistant",
                     content |-> <<"turn ", ToString(i)>>]]

\* A label that repeats enumerate's 0-based index
SourceLabelFromZero(i) == i

\* line 37: {i+1}, for enumerate's 0-based index i
SourceLabel(i) == i + 1

\* line 37: f"[Source {i+1}: {source}]\n{text}"
ContextBlock(i, res) ==
    <<"[Source ", ToString(SourceLabel(i)), ": ", res.source, "]\n", res.text>>

\* lines 31-37: one block per result, in the order search gave them
ContextBlocks(results) ==
    [j \in 1..Len(results) |-> ContextBlock(j - 1, results[j])]

\* line 39: "\n\n---\n\n".join(context_blocks)
RECURSIVE JoinBlocks(_)
JoinBlocks(blocks) ==
    IF Len(blocks) = 1
    THEN blocks[1]
    ELSE blocks[1] \o <<"\n\n---\n\n">> \o JoinBlocks(Tail(blocks))

\* line 39
Context(results) ==
    IF ContextBlocks(results) # <<>>
    THEN JoinBlocks(ContextBlocks(results))
    ELSE <<"No relevant context found.">>

\* The oldest turns instead of the latest
HistoryWindowOldest(history) == PySlice(history, 0, HistoryWindowSize)

\* line 44: history[-10:]
HistoryWindow(history) == PySlice(history, 0 - HistoryWindowSize, Len(history))

\* lines 48-53: the user message
UserMessage(context, query) ==
    <<"Context from documents:\n---\n">> \o context
        \o <<"\n---\n\nUser question: ", query>>

\* lines 41-56: the message list, given the search results
Messages(results, query, history) ==
    <<[role |-> "system", content |-> SYSTEM_PROMPT]>>
        \o [i \in 1..Len(HistoryWindow(history)) |->
               [role |-> HistoryWindow(history)[i].role,
                content |-> HistoryWindow(history)[i].content]]
        \o <<[role |-> "user", content |-> UserMessage(Context(results), query)]>>

\* A build_rag_messages that goes on without context when search fails
RagAfterSearchFallback(s, query, history) ==
    [raised |-> "none", returned |-> TRUE,
     messages |-> Messages(IF s.raised # "none" THEN <<>> ELSE s.result, query, history)]

\* lines 29-56: what follows vector_store.search: its exception reaches the
\* caller, its result is made into the message list
RagAfterSearch(s, query, history) ==
    IF s.raised # "none"
    THEN [raised |-> s.raised, returned |-> FALSE, messages |-> <<>>]
    ELSE [raised |-> "none", returned |-> TRUE,
          messages |-> Messages(s.result, query, history)]

\* lines 22-56: the record of one build_rag_messages(query, vector_store,
\* history) call whose search had the outcome s
RagCall(op, s, query, history, fails) ==
    LET out == RagAfterSearch(s, query, history)
    IN [NoRag EXCEPT !.op = op, !.query = query, !.fails = fails,
                     !.history_arg = history, !.history = history,
                     !.embedded = s.embedded,
                     !.results = IF s.raised = "none" THEN s.result ELSE <<>>,
                     !.raised = out.raised, !.returned = out.returned,
                     !.messages = out.messages]

\* A call of add_chunks that fills the index the chat reads
RagAddChunks ==
    \E n \in 1..MaxBatch :
    \E chunks_arg \in [1..n -> StoreTexts] :
    \E source_filename \in Sources :
        /\ LET out == AddChunksOutcome(collection, issued, chunks_arg, source_filename, 0)
           IN /\ Len(out.collection) <= MaxRecords
              /\ collection' = out.collection
              /\ issued' = out.issued
              /\ call' = [NoCall EXCEPT !.op = "add_chunks"]
        /\ UNCHANGED <<chunkerVars, otherVars>>

\* A call of build_rag_messages with the default top_k
BuildRagMessages ==
    \E query \in Queries :
    \E h \in HistoryLengths :
    \E fails \in BOOLEAN :
    \E s \in SearchOutcomes(collection, query, DefaultTopK, TRUE, fails) :
        /\ rag' = RagCall("build_rag_messages", s, query, History(h), fails)
        /\ UNCHANGED <<chunkerVars, storeVars, embedderVars, scopeVars, concVars, serviceVars>>

\* lines 59-64: stream_chat_response: build_rag_messages, then groq_stream
\* on the messages it returned
StreamChatResponse ==
    \E query \in Queries :
    \E h \in HistoryLengths :
    \E fails \in BOOLEAN :
    \E s \in SearchOutcomes(collection, query, DefaultTopK, TRUE, fails) :
        LET built == RagCall("stream_chat_response", s, query, History(h), fails)
        IN /\ rag' = [built EXCEPT !.llm_called = built.returned]
           /\ UNCHANGED <<chunkerVars, storeVars, embedderVars, scopeVars, concVars, serviceVars>>

NextRag == RagAddChunks \/ BuildRagMessages \/ StreamChatResponse

SpecRag == Init /\ [][NextRag]_vars

(***************************************************************************)
(* core/vector_store.py: two add_chunks calls on one notebook's index that *)
(* run at the same time, each on its own VectorStore.  A call may be       *)
(* preempted between any two statements; collection.add is one step of the *)
(* collection.                                                             *)
(***************************************************************************)
\* An add that writes back the collection as the store saw it when opened
AddTargetStale(now, opened) == opened

\* lines 35-40: collection.add works on the collection as it is at the add
AddTarget(now, opened) == now

\* lines 8-23: VectorStore(db_dir) and the entry of add_chunks(chunks)
WriterCall(w) ==
    \E n \in 0..MaxBatch :
    \E chunks_arg \in [1..n -> StoreTexts] :
        /\ writers[w].pc = "idle"
        /\ writers' = [writers EXCEPT ![w].pc = IF chunks_arg = <<>>
                                                THEN "done" ELSE "embed",
                                      ![w].chunks = chunks_arg,
                                      ![w].opened = collection]
        /\ UNCHANGED storeVars
        /\ UNCHANGED <<chunkerVars, embedderVars, scopeVars, ragVars, serviceVars>>

\* line 26: embeddings = embed_texts(chunks).tolist()
WriterEmbed(w) ==
    /\ writers[w].pc = "embed"
    /\ writers' = [writers EXCEPT ![w].pc = "ids",
                                  ![w].embeddings = embed_texts(writers[w].chunks, 0).value]
    /\ UNCHANGED storeVars
    /\ UNCHANGED <<chunkerVars, embedderVars, scopeVars, ragVars, serviceVars>>

\* line 29: ids = [str(uuid.uuid4()) for _ in chunks]
WriterIds(w) ==
    /\ writers[w].pc = "ids"
    /\ writers' = [writers EXCEPT ![w].pc = "add",
                                  ![w].ids = NewIds(issued, Len(writers[w].chunks))]
    /\ issued' = issued + Len(writers[w].chunks)
    /\ UNCHANGED <<collection, call>>
    /\ UNCHANGED <<chunkerVars, embedderVars, scopeVars, ragVars, serviceVars>>

\* lines 32-40: metadatas, then self.collection.add(...)
WriterAdd(w) ==
    /\ writers[w].pc = "add"
    /\ collection' = CollectionAdd(AddTarget(collection, writers[w].opened),
                                   writers[w].chunks,
                                   writers[w].embeddings,
                                   [i \in 1..Len(writers[w].chunks) |->
                                       [source |-> "Unknown Source"]],
                                   writers[w].ids).collection
    /\ writers' = [writers EXCEPT ![w].pc = "done"]
    /\ UNCHANGED <<issued, call>>
    /\ UNCHANGED <<chunkerVars, embedderVars, scopeVars, ragVars, serviceVars>>

NextConc ==
    \E w \in Writers :
        \/ WriterCall(w)
        \/ WriterEmbed(w)
        \/ WriterIds(w)
        \/ WriterAdd(w)

SpecConc == Init /\ [][NextConc]_vars

(***************************************************************************)
(* core/ingestion.py: load_txt.  A byte string is a sequence of numbers    *)
(* below 256, a str the sequence of its code points.                       *)
(***************************************************************************)
\* Longest byte string given to load_txt
MaxBytes == 4

\* The bytes tried: space, "a", the UTF-8 lead bytes C2 and C3, the
\* continuation bytes A0 and A9, and FF, which no UTF-8 text holds
ByteValues == {32, 97, 194, 195, 160, 169, 255}

\* bytes.decode("utf-8") on texts of one- and two-byte characters: a byte
\* below 128 is its character, a lead byte C2..DF takes one continuation
\* byte 80..BF, anything else is a UnicodeDecodeError
RECURSIVE Utf8Decode(_)
Utf8Decode(bs) ==
    IF bs = <<>>
    THEN [ok |-> TRUE, chars |-> <<>>]
    ELSE IF bs[1] < 128
    THEN LET rest == Utf8Decode(Tail(bs))
         IN [ok |-> rest.ok, chars |-> <<bs[1]>> \o rest.chars]
    ELSE IF /\ bs[1] \in 194..223
            /\ Len(bs) > 1
            /\ bs[2] \in 128..191
    THEN LET rest == Utf8Decode(Tail(Tail(bs)))
         IN [ok |-> rest.ok,
             chars |-> <<(bs[1] - 192) * 64 + (bs[2] - 128)>> \o rest.chars]
    ELSE [ok |-> FALSE, chars |-> <<>>]

\* bytes.decode("latin-1"): every byte is the character of that number
Latin1Decode(bs) == bs

\* str.isspace for one character
IsSpace(c) ==
    c \in (9..13) \cup (28..32) \cup {133, 160, 5760, 8232, 8233, 8239, 8287, 12288}
             \cup (8192..8202)

\* A strip that leaves the trailing whitespace (lstrip)
RECURSIVE PyStripLeft(_)
PyStripLeft(str) ==
    IF str # <<>> /\ IsSpace(str[1]) THEN PyStripLeft(Tail(str)) ELSE str

\* str.strip(): without the whitespace at both ends
RECURSIVE PyStrip(_)
PyStrip(str) ==
    IF str # <<>> /\ IsSpace(str[1])
    THEN PyStrip(Tail(str))
    ELSE IF str # <<>> /\ IsSpace(str[Len(str)])
         THEN PyStrip(SubSeq(str, 1, Len(str) - 1))
         ELSE str

\* lines 32-36
load_txt(file_bytes) ==
    IF Utf8Decode(file_bytes).ok
    THEN [raised |-> FALSE, value |-> PyStrip(Utf8Decode(file_bytes).chars)]
    ELSE [raised |-> FALSE, value |-> PyStrip(Latin1Decode(file_bytes))]

\* The call of load_txt on an uploaded file
LoadTxt ==
    \E n \in 0..MaxBytes :
    \E file_bytes \in [1..n -> ByteValues] :
        /\ ingest.op = "none"
        /\ ingest' = [op |-> "load_txt", file_bytes |-> file_bytes,
                      raised |-> load_txt(file_bytes).raised,
                      value |-> load_txt(file_bytes).value]
        /\ UNCHANGED <<coreVars, groq, app, api>>

SpecIngest == Init /\ [][LoadTxt]_vars

(***************************************************************************)
(* core/groq_client.py: groq_chat and groq_stream, one loop iteration per  *)
(* step.  An error is the text of its message, a sequence of characters.   *)
(***************************************************************************)
\* Most tokens one streamed attempt delivers
MaxTokens == 2

\* lines 13-15
MODELS == <<"llama-3.3-70b-versatile">>

\* The model argument: None, the model of MODELS, another model
RequestedModels == {"None", "llama-3.3-70b-versatile", "mixtral-8x7b"}

\* The messages of the errors an attempt may end with
ErrorMessages ==
    {<<"4", "2", "9">>,
     <<"R", "a", "t", "e", " ", "L", "i", "m", "i", "t">>,
     <<"r", "a", "t", "e", "_", "l", "i", "m", "i", "t", "_", "e", "x", "c", "e", "e", "d", "e", "d">>,
     <<"4", "0", "1">>,
     <<"T", "i", "m", "e", "o", "u", "t">>}

\* str.lower() on the letters the messages have in upper case
Lower(msg) ==
    [i \in 1..Len(msg) |->
        CASE msg[i] = "R" -> "r"
          [] msg[i] = "L" -> "l"
          [] msg[i] = "T" -> "t"
          [] OTHER -> msg[i]]

\* pat in msg
Contains(msg, pat) ==
    \E i \in 0..(Len(msg) - Len(pat)) : SubSeq(msg, i + 1, i + Len(pat)) = pat

\* lines 26-28: _is_rate_limit_error
is_rate_limit_error(e) ==
    \/ Contains(Lower(e), <<"4", "2", "9">>)
    \/ Contains(Lower(e), <<"r", "a", "t", "e", " ", "l", "i", "m", "i", "t">>)
    \/ Contains(Lower(e), <<"r", "a", "t", "e", "_", "l", "i", "m", "i", "t", "_", "e", "x", "c", "e", "e", "d", "e", "d">>)

\* The requested model followed by all of MODELS
models_to_try_repeating(model) ==
    IF model = "None" THEN MODELS ELSE <<model>> \o MODELS

\* lines 86 and 122: MODELS if model is None else
\* [model] + [m for m in MODELS if m != model]
models_to_try(model) ==
    IF model = "None"
    THEN MODELS
    ELSE <<model>> \o SelectSeq(MODELS, LAMBDA m : m # model)

\* lines 57-72: _friendly_rate_limit_message, the text every caller shows
FriendlyMessage == "All AI models are currently at their rate limit."

\* lines 85-88 and 121-124: a call of groq_chat or groq_stream; without
\* GROQ_API_KEY get_groq_client raises before any attempt
GroqCall ==
    \E op \in {"groq_chat", "groq_stream"} :
    \E model \in RequestedModels :
    \E has_key \in BOOLEAN :
        /\ groq.pc = "idle"
        /\ groq' = IF has_key
                   THEN [NoGroq EXCEPT !.op = op, !.pc = "attempt",
                                       !.requested = model,
                                       !.models = models_to_try(model)]
                   ELSE [NoGroq EXCEPT !.op = op, !.pc = "raised",
                                       !.requested = model,
                                       !.raised = <<"G", "R", "O", "Q", "_", "A", "P", "I", "_", "K", "E", "Y", " ", "n", "o", "t", " ", "s", "e", "t">>]
        /\ UNCHANGED <<coreVars, ingest, app, api>>

\* lines 99-105 and 140-146: the except clause, for the error e of the
\* attempt on the model at position at; after the last model the loop ends
\* and line 108 / 149 gives the friendly message
AfterError(g, at, e) ==
    LET tried == Append(g.attempts, [model |-> g.models[at], outcome |-> e])
    IN IF ~is_rate_limit_error(e)
       THEN [g EXCEPT !.pc = "raised", !.attempts = tried, !.raised = e, !.left = 0]
       ELSE IF at < Len(g.models)
            THEN [g EXCEPT !.pc = "attempt", !.attempts = tried,
                           !.errors = Append(@, e), !.left = 0]
            ELSE [g EXCEPT !.pc = "returned", !.attempts = tried,
                           !.errors = Append(@, e), !.left = 0,
                           !.result = IF g.op = "groq_chat" THEN FriendlyMessage ELSE "",
                           !.yielded = IF g.op = "groq_stream"
                                       THEN Append(@, [model |-> "none",
                                                       token |-> FriendlyMessage])
                                       ELSE @]

\* lines 89-97 and 125-133: client.chat.completions.create for the next
\* model: it answers (groq_chat returns the text, groq_stream starts to
\* iterate over the stream) or it raises
GroqAttempt ==
    /\ groq.pc = "attempt"
    /\ LET at == Len(groq.attempts) + 1
       IN \/ /\ groq.op = "groq_chat"
             /\ groq' = [groq EXCEPT !.pc = "returned",
                                     !.attempts = Append(@, [model |-> groq.models[at],
                                                             outcome |-> <<"ok">>]),
                                     !.result = groq.models[at]]
          \/ /\ groq.op = "groq_stream"
             /\ \E n \in 0..MaxTokens :
                   groq' = [groq EXCEPT !.pc = "streaming", !.left = n,
                                       !.attempts = Append(@, [model |-> groq.models[at],
                                                               outcome |-> <<"ok">>])]
          \/ \E e \in ErrorMessages : groq' = AfterError(groq, at, e)
    /\ UNCHANGED <<coreVars, ingest, app, api>>

\* lines 134-138: the loop over the stream: a chunk is yielded, or the
\* stream ends and groq_stream returns
GroqStreamNext ==
    /\ groq.pc = "streaming"
    /\ LET at == Len(groq.attempts)
       IN IF groq.left = 0
          THEN groq' = [groq EXCEPT !.pc = "returned"]
          ELSE groq' = [groq EXCEPT !.left = @ - 1,
                                   !.yielded = Append(@, [model |-> groq.models[at],
                                                       token |-> ToString(Len(groq.yielded) + 1)])]
    /\ UNCHANGED <<coreVars, ingest, app, api>>

\* lines 134 and 140-146: the iteration over the stream raises
GroqStreamBreaks ==
    /\ groq.pc = "streaming"
    /\ \E e \in ErrorMessages :
          LET at == Len(groq.attempts)
              begun == [groq EXCEPT !.attempts = SubSeq(@, 1, at - 1)]
          IN groq' = AfterError(begun, at, e)
    /\ UNCHANGED <<coreVars, ingest, app, api>>

NextGroq == GroqCall \/ GroqAttempt \/ GroqStreamNext \/ GroqStreamBreaks

SpecGroq == Init /\ [][NextGroq]_vars

(***************************************************************************)
(* app.py process_source and delete_notebook, api.py upload_document: the  *)
(* notebooks of one user.  app.rows are the committed Notebook rows,       *)
(* app.storage the subdirectories that exist below each notebook           *)
(* directory, app.index the records stored, each with the document it came *)
(* from.  A text is given by the length of its stripped form.              *)
(***************************************************************************)
\* Most notebook ids drawn
MaxDrawn == 3

\* Most files in one upload
MaxFiles == 2

\* app.py line 105: len(text.strip()) > 20
MinFileText == 20

\* app.py line 126 and api.py line 104: len(...strip()) < 50
MinCombinedText == 50

\* app.py line 125: the length of "\n\n---\n\n"
SeparatorLen == 7

Titles == {"Biology"}

\* The lengths of the text ingest_source extracts from a file or a page
\* (-1: ingest_source raises)
TextLens == {-1, 0, MinFileText, MinFileText + 1, MinCombinedText}

FileNames == <<"notes.txt", "paper.pdf", "slides.pptx">>

UrlTexts == {"", "https://example.org/page"}

\* What a call brings: files (the lengths of their texts, in order), or a
\* URL and the length of the page's text
UploadSources ==
    {[type |-> "files", lens |-> lens, url_text |-> "", url_len |-> 0] :
        lens \in UNION {[1..n -> TextLens] : n \in 0..MaxFiles}}
    \cup {[type |-> "url", lens |-> <<>>, url_text |-> "", url_len |-> 0]}
    \cup {[type |-> "url", lens |-> <<>>, url_text |-> u, url_len |-> l] :
              u \in UrlTexts \ {""}, l \in TextLens}

\* The users that log in (profile.username, the X-HF-User header)
Users == {"alice", "bob"}

\* filter(Notebook.hf_user_id == ..., Notebook.title == ...)
RowOf(a, user, title) == {r \in a.rows : r.owner = user /\ r.title = title}

\* lines 98-112: the files whose text is kept (ingest_source did not raise
\* and gave more than 20 characters), by position
KeptFiles(lens) == {i \in 1..Len(lens) : lens[i] > MinFileText}

RECURSIVE SumLens(_, _)
SumLens(lens, kept) ==
    IF kept = {}
    THEN 0
    ELSE LET i == CHOOSE i \in kept : TRUE
         IN lens[i] + SumLens(lens, kept \ {i})

\* line 125: len("\n\n---\n\n".join(all_text))
CombinedLen(lens, kept) ==
    IF kept = {}
    THEN 0
    ELSE SumLens(lens, kept) + SeparatorLen * (Cardinality(kept) - 1)

\* lines 42-48 of storage_manager.py, for the notebook id
DeleteStorage(a, id) ==
    [a EXCEPT !.storage = {d \in @ : d[1] # id},
              !.index = {r \in @ : r.notebook # id}]

\* lines 126-130, create mode: db.delete(notebook); db.commit()
Rollback(a, id) ==
    [a EXCEPT !.rows = {r \in @ : r.id # id}]

\* lines 132-136: get_chroma_db_dir, VectorStore, add_chunks(chunks,
\* source_filename=source_name): one record per document of the upload,
\* or the embedder's exception (the chroma directory exists by then)
Vectorize(a, id, source_name, origins, embed_fails) ==
    LET opened == [a EXCEPT !.storage = @ \cup {<<id, "chroma">>}]
    IN IF embed_fails
       THEN [ok |-> FALSE, app |-> opened]
       ELSE [ok |-> TRUE,
             app |-> [opened EXCEPT !.index = @ \cup
                         {[notebook |-> id, source |-> source_name, origin |-> o] :
                              o \in origins}]]

\* lines 90-147, after the notebook is found or created: a is the state
\* with the row committed
ProcessContent(a, id, source_type, lens, url_text, url_len, is_append, embed_fails) ==
    IF source_type = "files"
    THEN IF lens = <<>>
         THEN [ok |-> FALSE, app |-> a]
         ELSE LET kept == KeptFiles(lens)
                  saved == [a EXCEPT !.storage =
                               @ \cup (IF kept = {} THEN {} ELSE {<<id, "files_raw">>})]
              IN IF CombinedLen(lens, kept) < MinCombinedText
                 THEN [ok |-> FALSE,
                       app |-> IF is_append THEN saved ELSE Rollback(saved, id)]
                 ELSE Vectorize(saved, id, "Uploaded Files",
                                {FileNames[i] : i \in kept}, embed_fails)
    ELSE IF url_text = ""
         THEN [ok |-> FALSE, app |-> a]
         ELSE IF url_len < 0
         THEN [ok |-> FALSE, app |-> a]
         ELSE LET saved == [a EXCEPT !.storage =
                               @ \cup (IF url_len > 0 THEN {<<id, "files_raw">>} ELSE {})]
              IN IF url_len < MinCombinedText
                 THEN [ok |-> FALSE,
                       app |-> IF is_append THEN saved ELSE Rollback(saved, id)]
                 ELSE Vectorize(saved, id, url_text, {url_text}, embed_fails)

\* app.py lines 65-149: process_source, for the logged-in user
ProcessSource ==
    \E user \in Users :
    \E title \in Titles :
    \E is_append \in BOOLEAN :
    \E src \in UploadSources :
    \E embed_fails \in BOOLEAN :
        LET found == RowOf(app, user, title)
            refused == IF is_append THEN found = {} ELSE found # {}
            id == IF is_append
                  THEN (CHOOSE r \in found : TRUE).id
                  ELSE app.drawn + 1
            made == IF is_append
                    THEN app
                    ELSE [app EXCEPT !.rows = @ \cup {[id |-> id, owner |-> user, title |-> title]},
                                     !.drawn = id]
            out == ProcessContent(made, id, src.type, src.lens, src.url_text,
                                  src.url_len, is_append, embed_fails)
            op == [NoOp EXCEPT !.op = "process_source",
                               !.is_append = is_append]
        IN /\ app.drawn < MaxDrawn
           /\ app' = IF refused
                     THEN [app EXCEPT !.last = [op EXCEPT !.status = "error"]]
                     ELSE [out.app EXCEPT !.last =
                              [op EXCEPT !.status = IF out.ok THEN "ok" ELSE "error",
                                         !.notebook = id,
                                         !.created = ~is_append]]
           /\ UNCHANGED <<coreVars, ingest, groq, api>>

\* app.py lines 151-167: delete_notebook, for the logged-in user
DeleteNotebook ==
    \E user \in Users :
    \E title \in Titles :
        LET found == RowOf(app, user, title)
            id == (CHOOSE r \in found : TRUE).id
            op == [NoOp EXCEPT !.op = "delete_notebook",
                               !.status = "ok"]
        IN /\ app' = IF found = {}
                     THEN [app EXCEPT !.last = op]
                     ELSE [DeleteStorage(app, id) EXCEPT
                              !.rows = {r \in @ : r.id # id},
                              !.last = [op EXCEPT !.notebook = id]]
           /\ UNCHANGED <<coreVars, ingest, groq, api>>

\* api.py lines 66-128: upload_document with notebook_name, for the user
\* of the X-HF-User header: the notebook is found or created, the file
\* ingested and chunked, add_chunks(chunks) called without a source name
Upload(user, title, f, len, embed_fails) ==
        LET found == RowOf(app, user, title)
            id == IF found # {} THEN (CHOOSE r \in found : TRUE).id ELSE app.drawn + 1
            made == IF found # {}
                    THEN app
                    ELSE [app EXCEPT !.rows = @ \cup {[id |-> id, owner |-> user, title |-> title]},
                                     !.drawn = id]
            out == IF len < MinCombinedText
                   THEN [ok |-> FALSE, app |-> made]
                   ELSE Vectorize(made, id, "Unknown Source", {FileNames[f]}, embed_fails)
            saved == IF out.ok
                     THEN [out.app EXCEPT !.storage = @ \cup {<<id, "files_raw">>}]
                     ELSE out.app
            op == [NoOp EXCEPT !.op = "upload_document",
                               !.notebook = id, !.created = found = {},
                               !.status = IF out.ok THEN "ok" ELSE "error"]
        IN /\ app.drawn < MaxDrawn
           /\ app' = [saved EXCEPT !.last = op]
           /\ UNCHANGED <<coreVars, ingest, groq, api>>

\* Every upload of one file by a user
UploadDocument ==
    \E user \in Users :
    \E title \in Titles :
    \E len \in TextLens :
    \E embed_fails \in BOOLEAN :
        Upload(user, title, 1, len, embed_fails)

\* The uploads of a user that add a file's chunks to the notebook
UploadFile ==
    \E f \in 1..MaxFiles : Upload("alice", "Biology", f, MinCombinedText, FALSE)

NextApp == ProcessSource \/ DeleteNotebook \/ UploadDocument

SpecApp == Init /\ [][NextApp]_vars

(***************************************************************************)
(* api.py: the endpoints that name a notebook by its id.  The Notebook     *)
(* rows are app.rows and the notebooks' indexes app.index; api.artifacts   *)
(* and api.messages are the tables of the Artifact and ChatMessage rows in *)
(* commit order, api.flight the podcast_audio requests that wait for the   *)
(* synthesis.  core/database.py declares no Artifact class: the table has  *)
(* the columns the handlers use and no uniqueness beyond its key.          *)
(***************************************************************************)
\* Most API requests served
MaxRequests == 3

\* Notebook.notebook_id == notebook_id, Notebook.hf_user_id == hf_user_id
Owned(user, id) == \E r \in app.rows : r.id = id /\ r.owner = user

\* The artifact types with the value of their parameter (mode,
\* num_exchanges, num_questions, parsed_lines: "" when absent)
ArtifactRequests ==
    {[type |-> "summary", param |-> "Brief"],
     [type |-> "summary", param |-> "BRIEF"],
     [type |-> "podcast_script", param |-> "12"],
     [type |-> "quiz", param |-> "5"],
     [type |-> "study_guide", param |-> ""],
     [type |-> "mindmap", param |-> ""],
     [type |-> "podcast_audio", param |-> ""],
     [type |-> "podcast_audio", param |-> "lines"]}

\* lines 235-241, with str.lower() of the mode
cache_key(type, param) ==
    CASE type = "summary" ->
            "summary_" \o (IF param \in {"Brief", "BRIEF"} THEN "brief" ELSE param)
      [] type \in {"podcast_script", "quiz"} -> type \o "_" \o param
      [] OTHER -> type

\* json.dumps and json.loads
JsonDumps(v) == [v EXCEPT !.json = TRUE]

JsonLoads(c) == [c EXCEPT !.json = FALSE]

\* Artifact(artifact_id=uuid4, notebook_id, artifact_type, content)
ArtifactRow(id, key, content) ==
    [notebook |-> id, artifact_type |-> key, content |-> content]

\* A lookup that never finds a row
CachedNever(a, id, key) == {}

\* lines 206 and 243: filter(Artifact.notebook_id == ...,
\* Artifact.artifact_type == ...); first() gives one of the rows
Cached(a, id, key) ==
    {a.artifacts[i] : i \in {j \in 1..Len(a.artifacts) :
                                 /\ a.artifacts[j].notebook = id
                                 /\ a.artifacts[j].artifact_type = key}}

\* lines 251-253: vstore.collection.get()["documents"], by their number
FullText(id) == Cardinality({r \in app.index : r.notebook = id})

\* The response to a request
Respond(a, endpoint, user, id, key, status, body, touched, llm_called, index_read) ==
    [a EXCEPT !.last = [endpoint |-> endpoint, user |-> user,
                        notebook |-> id, key |-> key, status |-> status,
                        body |-> body, touched |-> touched,
                        llm_called |-> llm_called, index_read |-> index_read]]

\* lines 228-294: every artifact type but podcast_audio;
\* hits are the rows the cache lookup finds, hit the one first() gives
GenerateFromText(a, user, id, req, hits, hit, llm_ok) ==
    LET key == cache_key(req.type, req.param)
        made == [json |-> FALSE, of |-> key, text |-> FullText(id)]
        stored == IF req.type \in {"podcast_script", "quiz"}
                  THEN JsonDumps(made)
                  ELSE made
    IN IF ~Owned(user, id)
       THEN Respond(a, "generate", user, id, key, 404, NoContent,
                    FALSE, FALSE, FALSE)
       ELSE IF hits # {}
       THEN Respond(a, "generate", user, id, key, 200,
                    IF req.type \in {"podcast_script", "quiz"}
                    THEN JsonLoads(hit.content)
                    ELSE hit.content,
                    TRUE, FALSE, FALSE)
       ELSE IF FullText(id) = 0 \/ req.type = "mindmap"
       THEN Respond(a, "generate", user, id, key, 400, NoContent,
                    TRUE, FALSE, TRUE)
       ELSE IF ~llm_ok
       THEN Respond(a, "generate", user, id, key, 500, NoContent,
                    TRUE, TRUE, TRUE)
       ELSE Respond([a EXCEPT !.artifacts = Append(@, ArtifactRow(id, key, stored)),
                              !.generated = Append(@, [notebook |-> id, key |-> key])],
                    "generate", user, id, key, 200, made, TRUE, TRUE, TRUE)

\* lines 193-213: podcast_audio up to the await
GenerateAudio(a, user, id, req, hits, hit) ==
    IF req.param = ""
    THEN Respond(a, "generate", user, id, "", 400, NoContent,
                 FALSE, FALSE, FALSE)
    ELSE IF hits # {}
    THEN Respond(a, "generate", user, id, "podcast_audio", 200, hit.content,
                 TRUE, FALSE, FALSE)
    ELSE [a EXCEPT !.flight = Append(@, [user |-> user, notebook |-> id])]

\* api.py lines 189-294: POST /api/generate, up to its response or to the
\* await of line 215
GenerateArtifact ==
    \E user \in Users :
    \E id \in 1..app.drawn :
    \E req \in ArtifactRequests :
    \E llm_ok \in BOOLEAN :
        LET n == api.served + 1
            hits == Cached(api, id, cache_key(req.type, req.param))
            counted == [api EXCEPT !.served = n]
        IN /\ api.served < MaxRequests
           /\ \E hit \in IF hits = {} THEN {ArtifactRow(0, "", NoContent)} ELSE hits :
                 api' = IF req.type = "podcast_audio"
                        THEN GenerateAudio(counted, user, id, req, hits, hit)
                        ELSE GenerateFromText(counted, user, id, req, hits, hit, llm_ok)
           /\ UNCHANGED <<coreVars, ingest, groq, app>>

\* lines 215-226: generate_podcast_audio has returned (or raised): the row
\* is added and committed, the audio returned
GenerateAudioResume ==
    \E i \in 1..Len(api.flight) :
    \E tts_ok \in BOOLEAN :
        LET r == api.flight[i]
            audio == [json |-> FALSE, of |-> "podcast_audio", text |-> 1]
            left == [api EXCEPT !.flight = SubSeq(@, 1, i - 1)
                                            \o SubSeq(@, i + 1, Len(@))]
        IN /\ api' = IF tts_ok
                     THEN Respond([left EXCEPT !.artifacts =
                                      Append(@, ArtifactRow(r.notebook, "podcast_audio", audio))],
                                  "generate", r.user, r.notebook,
                                  "podcast_audio", 200, audio, TRUE, FALSE, FALSE)
                     ELSE Respond(left, "generate", r.user, r.notebook,
                                  "podcast_audio", 500, NoContent, TRUE, FALSE, FALSE)
           /\ UNCHANGED <<coreVars, ingest, groq, app>>

\* The rows a chat request adds only once the user message is known
ChatRowsUserFirst(id, outcome) ==
    IF outcome = "retrieval_fails"
    THEN <<>>
    ELSE IF outcome = "llm_fails"
    THEN <<[notebook |-> id, role |-> "user", content |-> "message"]>>
    ELSE <<[notebook |-> id, role |-> "user", content |-> "message"],
           [notebook |-> id, role |-> "assistant", content |-> "full_response"]>>

\* lines 156-165: the rows a chat request commits, by what became of
\* build_rag_messages and groq_stream
ChatRows(id, outcome) ==
    IF outcome = "ok"
    THEN <<[notebook |-> id, role |-> "user", content |-> "message"],
           [notebook |-> id, role |-> "assistant", content |-> "full_response"]>>
    ELSE <<>>

\* api.py lines 136-167: POST /api/chat
Chat ==
    \E user \in Users :
    \E id \in 1..app.drawn :
    \E outcome \in {"ok", "retrieval_fails", "llm_fails"} :
        LET n == api.served + 1
            counted == [api EXCEPT !.served = n]
            answer == [json |-> FALSE, of |-> "chat", text |-> FullText(id)]
        IN /\ api.served < MaxRequests
           /\ api' = IF ~Owned(user, id)
                     THEN Respond(counted, "chat", user, id, "", 404, NoContent,
                                  FALSE, FALSE, FALSE)
                     ELSE Respond([counted EXCEPT
                                      !.messages = @ \o ChatRows(id, outcome),
                                      !.chats = IF outcome = "ok" THEN @ + 1 ELSE @],
                                  "chat", user, id, "",
                                  IF outcome = "ok" THEN 200 ELSE 500,
                                  IF outcome = "ok" THEN answer ELSE NoContent,
                                  TRUE, outcome # "retrieval_fails", TRUE)
           /\ UNCHANGED <<coreVars, ingest, groq, app>>

\* api.py lines 30-64: GET files, chats and artifacts of a notebook
ReadNotebook ==
    \E user \in Users :
    \E id \in 1..app.drawn :
    \E endpoint \in {"files", "chats", "artifacts"} :
        LET n == api.served + 1
            counted == [api EXCEPT !.served = n]
        IN /\ api.served < MaxRequests
           /\ api' = IF Owned(user, id)
                     THEN Respond(counted, endpoint, user, id, "", 200, NoContent,
                                  TRUE, FALSE, FALSE)
                     ELSE Respond(counted, endpoint, user, id, "", 404, NoContent,
                                  FALSE, FALSE, FALSE)
           /\ UNCHANGED <<coreVars, ingest, groq, app>>

\* api.py lines 173-182: POST /api/notebooks/rename
RenameNotebook ==
    \E user \in Users :
    \E id \in 1..app.drawn :
        LET n == api.served + 1
            counted == [api EXCEPT !.served = n]
        IN /\ api.served < MaxRequests
           /\ api' = Respond(counted, "rename", user, id, "",
                             IF Owned(user, id) THEN 200 ELSE 404, NoContent,
                             Owned(user, id), FALSE, FALSE)
           /\ app' = IF Owned(user, id)
                     THEN [app EXCEPT !.rows =
                              {IF r.id = id THEN [r EXCEPT !.title = "Renamed"] ELSE r :
                                   r \in @}]
                     ELSE app
           /\ UNCHANGED <<coreVars, ingest, groq>>

NextApi == UploadFile \/ GenerateArtifact \/ GenerateAudioResume

SpecApi == Init /\ [][NextApi]_vars

NextChat == UploadFile \/ Chat \/ ReadNotebook \/ RenameNotebook

SpecChat == Init /\ [][NextChat]_vars

(***************************************************************************)
(* core/embedder.py: get_model, called by embed_texts and embed_query from *)
(* the threads that serve requests.  A thread may be preempted between any *)
(* two statements.                                                         *)
(***************************************************************************)
\* Most calls of get_model one thread makes
MaxCalls == 2

\* line 12: if _model is None
NeedsLoad(m) == m = 0

\* lines 10-12: a thread enters get_model and tests _model
GetModelCheck(t) ==
    /\ threads[t].pc = "idle"
    /\ threads[t].calls < MaxCalls
    /\ threads' = [threads EXCEPT ![t].pc = IF NeedsLoad(model_global)
                                            THEN "construct" ELSE "return",
                                  ![t].calls = @ + 1]
    /\ UNCHANGED <<model_global, loads>>
    /\ UNCHANGED <<chunkerVars, storeVars, scopeVars, ragVars, concVars, serviceVars>>

\* line 13, right-hand side: SentenceTransformer("all-MiniLM-L6-v2")
GetModelConstruct(t) ==
    /\ threads[t].pc = "construct"
    /\ loads' = loads + 1
    /\ threads' = [threads EXCEPT ![t].pc = "assign", ![t].made = loads + 1]
    /\ UNCHANGED model_global
    /\ UNCHANGED <<chunkerVars, storeVars, scopeVars, ragVars, concVars, serviceVars>>

\* line 13, the assignment: _model = <the instance just constructed>
GetModelAssign(t) ==
    /\ threads[t].pc = "assign"
    /\ model_global' = threads[t].made
    /\ threads' = [threads EXCEPT ![t].pc = "return"]
    /\ UNCHANGED loads
    /\ UNCHANGED <<chunkerVars, storeVars, scopeVars, ragVars, concVars, serviceVars>>

\* line 14: return _model
GetModelReturn(t) ==
    /\ threads[t].pc = "return"
    /\ threads' = [threads EXCEPT ![t].pc = "idle", ![t].got = model_global]
    /\ UNCHANGED <<model_global, loads>>
    /\ UNCHANGED <<chunkerVars, storeVars, scopeVars, ragVars, concVars, serviceVars>>

NextEmbedder ==
    \E t \in Threads :
        \/ GetModelCheck(t)
        \/ GetModelConstruct(t)
        \/ GetModelAssign(t)
        \/ GetModelReturn(t)

SpecEmbedder == Init /\ [][NextEmbedder]_vars

(***************************************************************************)
(* Claims about chunk_text, checked under SpecChunker.                     *)
(***************************************************************************)
\* ceil(a / b) for b > 0
CeilDiv(a, b) == (a + b - 1) \div b

\* The call has returned and its parameters satisfy 0 <= overlap < chunk_size
ReturnedWithValidParams == pc = "done" /\ overlap < chunk_size

\* The words of the i-th returned chunk (i from 1)
ChunkWords(i) == Split(chunks[i])

\* C1: with 0 < overlap < chunk_size, a text of N > chunk_size words is
\* returned as exactly ceil((N - overlap) / (chunk_size - overlap)) chunks.
C1_ChunkCountFormula ==
    (ReturnedWithValidParams /\ overlap > 0 /\ Len(words) > chunk_size)
        => Len(chunks) = CeilDiv(Len(words) - overlap, chunk_size - overlap)

\* C2: a text of N words, 0 < N <= chunk_size, is returned as exactly one
\* chunk, and that chunk holds all N words in order.
C2_ShortTextIsOneChunk ==
    (ReturnedWithValidParams /\ 0 < Len(words) /\ Len(words) <= chunk_size)
        => (Len(chunks) = 1 /\ ChunkWords(1) = words)

\* C3: chunk_text is guarded against overlap >= chunk_size, so the call
\* terminates: every iteration of its loop that is followed by another one
\* moves the window forward.
C3_EveryIterationAdvances ==
    [][(pc = "loop" /\ pc' = "loop") => start' > start]_vars

\* C4: with 0 <= overlap < chunk_size, the i-th returned chunk (i from 0) is
\* the space-joined words at [i*step, min(i*step + chunk_size, N)) for
\* step = chunk_size - overlap, chunks come in increasing i, none has more
\* than chunk_size words, and every word lies in at least one chunk.
C4_ChunksAreTheWindows ==
    ReturnedWithValidParams =>
        LET step == chunk_size - overlap
            N == Len(words)
            lo(i) == (i - 1) * step
            hi(i) == Min((i - 1) * step + chunk_size, N)
        IN /\ \A i \in 1..Len(chunks) :
                /\ chunks[i] = Join([k \in 1..(hi(i) - lo(i)) |-> words[lo(i) + k]])
                /\ Len(ChunkWords(i)) <= chunk_size
           /\ \A j \in 1..N : \E i \in 1..Len(chunks) : lo(i) < j /\ j <= hi(i)

\* C4's case: a call that returned several chunks, the last one clipped
C4_Witness ==
    /\ ReturnedWithValidParams
    /\ Len(chunks) >= 3
    /\ Len(ChunkWords(Len(chunks))) < chunk_size
    /\ \E i, j \in 1..Len(words) : words[i] # words[j]

\* The last n and the first n words of a chunk (all of it when it has fewer)
LastWords(ws, n) == SubSeq(ws, Max(Len(ws) - n, 0) + 1, Len(ws))
FirstWords(ws, n) == SubSeq(ws, 1, Min(n, Len(ws)))

\* C5: for overlap > 0, when chunks i and i+1 both have exactly chunk_size
\* words, the last overlap words of chunk i are the first overlap words of
\* chunk i+1, word for word.
C5_FullChunksShareOverlap ==
    (pc = "done" /\ overlap > 0) =>
        \A i \in 1..(Len(chunks) - 1) :
            (Len(ChunkWords(i)) = chunk_size /\ Len(ChunkWords(i + 1)) = chunk_size)
                => LastWords(ChunkWords(i), overlap) = FirstWords(ChunkWords(i + 1), overlap)

\* C5's case: two consecutive full-length chunks whose shared words differ
\* from the words around them
C5_Witness ==
    /\ pc = "done"
    /\ overlap > 0
    /\ \E i \in 1..(Len(chunks) - 1) :
        /\ Len(ChunkWords(i)) = chunk_size
        /\ Len(ChunkWords(i + 1)) = chunk_size
        /\ ChunkWords(i)[1] # ChunkWords(i + 1)[1]

(***************************************************************************)
(* Claims about VectorStore, checked under Spec.                           *)
(***************************************************************************)
\* The last call was a search that reached the collection's query
SearchedNonEmpty ==
    call.op = "search" /\ collection # <<>> /\ call.fail_at = 0

\* C6: search on an index holding zero records returns an empty result for
\* every query and top_k, raises nothing and does not invoke the embedder,
\* also when the embedding capability would fail.
C6_EmptyIndexSearchIsEmpty ==
    (call.op = "search" /\ collection = <<>>)
        => (call.result = <<>> /\ call.raised = "none" /\ ~call.embedded)

\* C6's case: a search on the empty index while the embedder is failing
C6_Witness ==
    /\ call.op = "search"
    /\ collection = <<>>
    /\ call.fail_at # 0
    /\ call.top_k > 1

\* Record a comes before record b for the query: nearer, or as near and
\* inserted earlier
RanksBefore(coll, q_emb, a, b) ==
    \/ L2(coll[a].embedding, q_emb) < L2(coll[b].embedding, q_emb)
    \/ /\ L2(coll[a].embedding, q_emb) = L2(coll[b].embedding, q_emb)
       /\ a < b

\* The one ranking of k records that breaks distance ties by insertion order
InsertionOrderRanking(coll, q_emb, k) ==
    CHOOSE r \in [1..k -> 1..Len(coll)] :
        /\ \A i, j \in 1..k : i < j => RanksBefore(coll, q_emb, r[i], r[j])
        /\ \A m \in 1..Len(coll) :
              (\A i \in 1..k : r[i] # m) =>
                  \A i \in 1..k : RanksBefore(coll, q_emb, r[i], m)

\* C7: search returns the top_k stored records nearest to the query vector
\* in L2 distance, nearest first, records at equal distance in insertion
\* order (first inserted first).
C7_NearestFirstTiesByInsertion ==
    (SearchedNonEmpty /\ call.include_metadata) =>
        LET k == Min(call.top_k, Len(collection))
            r == InsertionOrderRanking(collection, Encode(call.query), k)
        IN call.result =
              [i \in 1..k |-> [text |-> collection[r[i]].document,
                               source |-> collection[r[i]].metadata.source]]

C9_AddIsBatchOrNothing ==
    [][(call'.op = "add_chunks" /\ call'.fail_at # 0)
          => (call'.raised = "EmbeddingError" /\ collection' = collection)]_vars

\* C9's case: the embedder failed on the second chunk of a batch added to
\* an index that already held records
C9_Witness ==
    /\ call.op = "add_chunks"
    /\ call.fail_at = 2
    /\ call.raised = "EmbeddingError"
    /\ collection # <<>>

\* C10: the stored ids are pairwise distinct; a successful add_chunks call
\* appends one record per chunk passed, under ids no stored record has, and
\* keeps the records already stored; a call with an empty chunk list changes
\* nothing and does not call the embedder.
C10_FreshIdsOneRecordPerChunk ==
    /\ [](\A i, j \in 1..Len(collection) :
             i # j => collection[i].id # collection[j].id)
    /\ [][(call'.op = "add_chunks" /\ call'.raised = "none") =>
             /\ Len(collection') = Len(collection) + Len(call'.chunks)
             /\ SubSeq(collection', 1, Len(collection)) = collection
             /\ \A i \in (Len(collection) + 1)..Len(collection') :
                   /\ collection'[i].document = call'.chunks[i - Len(collection)]
                   /\ \A j \in 1..Len(collection) :
                         collection'[i].id # collection[j].id
             /\ (call'.chunks = <<>> => (~call'.embedded /\ issued' = issued))]_vars

\* C10's case: a successful batch added to an index that held records
C10_Witness ==
    /\ call.op = "add_chunks"
    /\ call.raised = "none"
    /\ call.embedded
    /\ call.chunks # <<>>
    /\ Len(collection) > Len(call.chunks)

C20_ModelLoadedOnce ==
    /\ loads <= 1
    /\ \A t \in Threads : threads[t].got \in {0, 1}

(***************************************************************************)
(* Claims about the notebooks' storage and indexes, checked under          *)
(* SpecScope.                                                              *)
(***************************************************************************)
\* C12: a search on one notebook's index returns only chunks that were
\* added to that notebook: every returned item carries the source name that
\* notebook's uploads pass, never another notebook's.
C12_NoCrossNotebookResults ==
    request.op = "search" =>
        \A i \in 1..Len(request.result) :
            request.result[i].source = SourceName(request.notebook)

\* a search that returned chunks while the other notebook, stored inside the
\* searched notebook's directory or next to it, holds chunks too
C12_Witness ==
    /\ request.op = "search"
    /\ request.result # <<>>
    /\ \E j \in 1..Len(owners) :
          /\ j # request.notebook
          /\ IndexOf(j) # <<>>
          /\ \/ owners[j] = owners[request.notebook]
             \/ owners[j] = <<"u1", "notebooks", "n1">>

\* C13: the storage locations of two distinct (user, notebook) pairs never
\* overlap: neither notebook directory is the other or lies inside it.
C13_LocationsNeverOverlap ==
    \A j, k \in 1..Len(owners) :
        j # k => ~IsPrefix(Resolve(get_notebook_dir(owners[j], NotebookId(j))),
                           Resolve(get_notebook_dir(owners[k], NotebookId(k))))

\* C14: delete_notebook_storage returns true exactly when the notebook's
\* directory existed and leaves nothing of it; an open of the index right
\* after it holds zero records, and no later state of the index holds a
\* record that a delete removed.
C14_DeleteThenOpenIsEmpty ==
    /\ [](\A k \in 1..Len(owners) :
             \A i \in 1..Len(IndexOf(k)) : IndexOf(k)[i].id \notin purged[k])
    /\ [][request'.op = "delete" =>
             LET k == request'.notebook
                 path == get_notebook_dir(owners[k], NotebookId(k))
             IN /\ request'.returned = Exists(dirs, path)
                /\ ~Exists(dirs', path)
                /\ Resolve(get_chroma_db_dir(owners[k], NotebookId(k))) \notin DOMAIN disk']_vars
    /\ [][(/\ request.op = "delete"
           /\ request'.op = "search"
           /\ request'.notebook = request.notebook)
              => (request'.count = 0 /\ request'.result = <<>>)]_vars

\* a search of a notebook whose records a delete removed finds the index
\* empty
C14_Witness ==
    /\ request.op = "search"
    /\ request.count = 0
    /\ purged[request.notebook] # {}

\* C15: opening an index changes no stored record, and two searches of the
\* same notebook for the same query, each on a fresh open, give the same
\* count and the same ranked results.
C15_ReopenSameRankings ==
    /\ [][request'.op = "search" =>
             \A p \in DOMAIN disk : p \in DOMAIN disk' /\ disk'[p] = disk[p]]_vars
    /\ [][(/\ request.op = "search"
           /\ request'.op = "search"
           /\ request'.notebook = request.notebook
           /\ request'.query = request.query)
              => (/\ request'.count = request.count
                  /\ request'.result = request.result)]_vars

(***************************************************************************)
(* Claims about build_rag_messages, checked under SpecRag.                 *)
(***************************************************************************)
\* C16: for a history of h turns the returned list has 1 + min(h, 10) + 1
\* messages: the system message, the last min(h, 10) turns oldest first with
\* role and content as they were, then one user message holding the context
\* and, after it, the query.
C16_MessageListShape ==
    (rag.op = "build_rag_messages" /\ rag.returned) =>
        LET h == Len(rag.history_arg)
            kept == Min(h, 10)
            last == rag.messages[Len(rag.messages)]
            ctx == Context(rag.results)
        IN /\ Len(rag.messages) = 1 + kept + 1
           /\ rag.messages[1] = [role |-> "system", content |-> SYSTEM_PROMPT]
           /\ \A i \in 1..kept : rag.messages[1 + i] = rag.history_arg[h - kept + i]
           /\ last.role = "user"
           /\ last.content[Len(last.content)] = rag.query
           /\ \E at \in 1..Len(last.content) :
                 /\ at + Len(ctx) - 1 < Len(last.content)
                 /\ SubSeq(last.content, at, at + Len(ctx) - 1) = ctx

\* a call that returned for a history longer than the window
C16_Witness ==
    /\ rag.op = "build_rag_messages"
    /\ rag.returned
    /\ Len(rag.history_arg) > 10
    /\ rag.results # <<>>

\* The context inside the user message: what lies between the heading and
\* the question
ContextOf(content) == SubSeq(content, 2, Len(content) - 2)

\* C17: the context has one block per search result in rank order, the i-th
\* (from 1) labelled "Source i" with that result's source and holding its
\* text, with the same separator between any two blocks; for zero results it
\* is "No relevant context found." and the call returns normally.
C17_ContextBlocks ==
    (rag.op = "build_rag_messages" /\ rag.raised = "none") =>
        /\ rag.returned
        /\ LET ctx == ContextOf(rag.messages[Len(rag.messages)].content)
               n == Len(rag.results)
               width == Len(ContextBlock(0, [source |-> "", text |-> ""])) + 1
           IN IF n = 0
              THEN ctx = <<"No relevant context found.">>
              ELSE /\ Len(ctx) = n * width - 1
                   /\ \A i \in 1..n :
                         SubSeq(ctx, (i - 1) * width + 1, i * width - 1)
                            = <<"[Source ", ToString(i), ": ", rag.results[i].source,
                                "]\n", rag.results[i].text>>
                   /\ \A i, j \in 1..(n - 1) : ctx[i * width] = ctx[j * width]

\* a call that got two results with different sources
C17_Witness ==
    /\ rag.op = "build_rag_messages"
    /\ rag.returned
    /\ Len(rag.results) > 1
    /\ rag.results[1].source # rag.results[Len(rag.results)].source

\* C18: a build_rag_messages call leaves the caller's history and the index
\* as they were and calls no language model; when the embedder or the index
\* fails during its search, the failure reaches the caller and no message
\* list is returned.
C18_NoSideEffectFailurePropagates ==
    /\ [][(rag' # rag /\ rag'.op = "build_rag_messages") =>
             /\ rag'.history = rag'.history_arg
             /\ collection' = collection
             /\ ~rag'.llm_called]_vars
    /\ []((rag.op = "build_rag_messages" /\ rag.embedded /\ rag.fails) =>
             /\ rag.raised # "none"
             /\ ~rag.returned
             /\ rag.messages = <<>>)

\* a call on a filled index whose embedder failed, with a history passed
C18_Witness ==
    /\ rag.op = "build_rag_messages"
    /\ rag.embedded
    /\ rag.fails
    /\ rag.raised = "EmbeddingError"
    /\ rag.history # <<>>
    /\ collection # <<>>

C23_LoadTxtTotalAndStripped ==
    ingest.op = "load_txt" =>
        LET bs == ingest.file_bytes
            v == ingest.value
            ascii == \A i \in 1..Len(bs) : bs[i] < 128
            noUtf8 == \E i \in 1..Len(bs) : bs[i] = 255
        IN /\ ~ingest.raised
           /\ v \in Seq(0..12288)
           /\ v # <<>> => (~IsSpace(v[1]) /\ ~IsSpace(v[Len(v)]))
           /\ (\A i \in 1..Len(bs) : bs[i] = 32) => v = <<>>
           /\ (ascii \/ noUtf8) =>
                 \E lo \in 1..(Len(bs) + 1), hi \in 0..Len(bs) :
                    /\ v = SubSeq(bs, lo, hi)
                    /\ \A i \in 1..Len(bs) : (i < lo \/ i > hi) => IsSpace(bs[i])
           /\ bs = <<195, 169>> => v = <<233>>

\* bytes that are no UTF-8, with whitespace at both ends around a letter
C23_Witness ==
    /\ ingest.op = "load_txt"
    /\ \E i \in 1..Len(ingest.file_bytes) : ingest.file_bytes[i] = 255
    /\ ingest.file_bytes[1] = 32
    /\ ingest.file_bytes[Len(ingest.file_bytes)] = 160
    /\ ingest.value # <<>>

(***************************************************************************)
(* Claims about groq_chat and groq_stream, checked under SpecGroq.         *)
(***************************************************************************)
\* The error texts that name a rate limit
RateLimitTexts ==
    {<<"4", "2", "9">>,
     <<"R", "a", "t", "e", " ", "L", "i", "m", "i", "t">>,
     <<"r", "a", "t", "e", "_", "l", "i", "m", "i", "t", "_", "e", "x", "c", "e", "e", "d", "e", "d">>}

\* C24: groq_chat tries the requested model first and then the other
\* models of MODELS, each at most once and in order; every attempt before
\* the last ended with a rate-limit error; it returns the response of the
\* first attempt that succeeds and tries no further model; an error that is
\* no rate-limit error is raised at once; when every model was rate-limited
\* it returns the friendly message and raises nothing.
C24_ChatFallbackOrder ==
    (groq.op = "groq_chat" /\ groq.models # <<>>) =>
        LET A == groq.attempts
            M == groq.models
            n == Len(A)
        IN /\ groq.requested # "None" => M[1] = groq.requested
           /\ groq.requested = "None" => M = MODELS
           /\ \A i, j \in 1..Len(M) : i # j => M[i] # M[j]
           /\ \A i \in 1..Len(MODELS) : \E j \in 1..Len(M) : M[j] = MODELS[i]
           /\ n <= Len(M)
           /\ \A i \in 1..n : A[i].model = M[i]
           /\ \A i \in 1..(n - 1) : A[i].outcome \in RateLimitTexts
           /\ groq.pc = "attempt" =>
                 /\ n < Len(M)
                 /\ \A i \in 1..n : A[i].outcome \in RateLimitTexts
           /\ (n > 0 /\ A[n].outcome = <<"ok">>) =>
                 /\ groq.pc = "returned"
                 /\ groq.result = A[n].model
                 /\ groq.raised = <<>>
           /\ (n > 0 /\ A[n].outcome \notin RateLimitTexts \cup {<<"ok">>}) =>
                 /\ groq.pc = "raised"
                 /\ groq.raised = A[n].outcome
           /\ (groq.pc = "returned" /\ A[n].outcome # <<"ok">>) =>
                 /\ n = Len(M)
                 /\ \A i \in 1..n : A[i].outcome \in RateLimitTexts
                 /\ groq.result = FriendlyMessage
                 /\ groq.raised = <<>>

\* the requested model was rate-limited and the model of MODELS answered
C24_Witness ==
    /\ groq.op = "groq_chat"
    /\ groq.pc = "returned"
    /\ Len(groq.attempts) = 2
    /\ groq.attempts[1].outcome \in RateLimitTexts
    /\ groq.attempts[2].outcome = <<"ok">>
    /\ groq.result = MODELS[1]

\* C26: everything one groq_stream call yields comes from one source: the
\* tokens of one model's stream, or the friendly message alone.
C26_StreamFromOneAttempt ==
    groq.op = "groq_stream" =>
        \A i, j \in 1..Len(groq.yielded) :
            groq.yielded[i].model = groq.yielded[j].model

(***************************************************************************)
(* Claims about the notebooks' lifecycle, checked under SpecApp.           *)
(***************************************************************************)
\* C21: once the operation that removed a notebook's row has returned, no
\* storage of that notebook remains: no directory below its notebook
\* directory and no record of its index.  Every id drawn was committed as a
\* row, so an id without a row is the id of a removed notebook.
C21_RemovedNotebookLeavesNoStorage ==
    \A id \in 1..app.drawn :
        (\A r \in app.rows : r.id # id) =>
            /\ \A d \in app.storage : d[1] # id
            /\ \A r \in app.index : r.notebook # id

\* C22: every record an ingestion stored carries as its source label the
\* filename or the URL of the document it came from.
C22_RecordsCarryOriginLabel ==
    \A r \in app.index : r.source = r.origin

\* C28: when process_source in create mode, or upload_document with a new
\* notebook name, returns an error after it created the notebook's row, no
\* row of that notebook remains.
C28_FailedCreationLeavesNoNotebook ==
    (/\ app.last.op \in {"process_source", "upload_document"}
     /\ app.last.created
     /\ app.last.status = "error") =>
        \A r \in app.rows : r.id # app.last.notebook

(***************************************************************************)
(* Claims about the API's artifacts, checked under SpecApi.                *)
(***************************************************************************)
\* C25: a generate request of the notebook's owner that arrives when an
\* artifact is stored for its notebook and cache key is answered with the
\* content of a stored row of that key, without a call of the language
\* model, without a read of the index and without a new artifact row, also
\* when the index has grown since the artifact was made.
C25_StoredArtifactServed ==
    [][(/\ api'.served # api.served
        /\ api'.flight = api.flight
        /\ api'.last.endpoint = "generate"
        /\ Owned(api'.last.user, api'.last.notebook)
        /\ \E i \in 1..Len(api.artifacts) :
              /\ api.artifacts[i].notebook = api'.last.notebook
              /\ api.artifacts[i].artifact_type = api'.last.key)
       => (/\ api'.last.status = 200
           /\ \E i \in 1..Len(api.artifacts) :
                 /\ api.artifacts[i].notebook = api'.last.notebook
                 /\ api.artifacts[i].artifact_type = api'.last.key
                 /\ api.artifacts[i].content.of = api'.last.body.of
                 /\ api.artifacts[i].content.text = api'.last.body.text
           /\ ~api'.last.body.json
           /\ ~api'.last.llm_called
           /\ ~api'.last.index_read
           /\ api'.artifacts = api.artifacts
           /\ api'.generated = api.generated)]_vars

\* the owner is answered with the quiz made from one document, from the
\* cache, when the index holds two
C25_Witness ==
    /\ api.last.endpoint = "generate"
    /\ api.last.key = "quiz_5"
    /\ Owned(api.last.user, api.last.notebook)
    /\ api.last.status = 200
    /\ ~api.last.llm_called
    /\ api.last.body.text = 1
    /\ FullText(api.last.notebook) = 2

\* C27: a request of a user who does not own the notebook it names is
\* answered with an error and reads and writes nothing of that notebook.
C27_OwnershipCheckedFirst ==
    (api.last.endpoint # "none" /\ ~Owned(api.last.user, api.last.notebook)) =>
        (api.last.status >= 400 /\ ~api.last.touched)

C29_ChatTurnsStoredAsPairs ==
    /\ Len(api.messages) = 2 * api.chats
    /\ \A k \in 1..api.chats :
          /\ api.messages[2 * k - 1].role = "user"
          /\ api.messages[2 * k].role = "assistant"
          /\ api.messages[2 * k - 1].notebook = api.messages[2 * k].notebook

\* two chat requests completed and a third failed
C29_Witness ==
    /\ api.chats = 2
    /\ Len(api.messages) = 4
    /\ api.last.endpoint = "chat"
    /\ api.last.status = 500

=============================================================================
